---- MODULE Spec2Model ----
(***************************************************************************)
(* KPFCNN_featureAggre (models/architectures_sphere_middle_fusion.py):     *)
(* the architecture builder (__init__), the forward pass's skip/fusion     *)
(* bookkeeping (forward) and the label remapping of loss and accuracy.     *)
(*                                                                         *)
(* Tensors are modelled by their feature width (the size of dim 1), block  *)
(* modules by the arguments block_decider was called with.  List indices   *)
(* are Python's (0-based); a Python list l is the sequence with            *)
(* l[i] = seq[i + 1].                                                      *)
(***************************************************************************)
EXTENDS Integers, Sequences, FiniteSets

\* ------------------------------------------------------------------ bounds

\* Longest architecture list enumerated (besides ExampleArchitecture).
MaxLen == 4
\* Longest lbl_values list enumerated.
MaxLbl == 3
\* Longest ign_lbls list enumerated.
MaxIgn == 1
\* Longest label tensor handed to loss / accuracy.
MaxPoints == 1

\* ------------------------------------------------------- configuration

\* config.in_features_dim_3d: width of stacked_features_3d (ones + colors).
in_features_dim_3d == 4
\* config.in_features_dim_2d: width of stacked_features_2d (feature_2d3d).
in_features_dim_2d == 64

\* Block descriptors of config.architecture.
Blocks ==
    {"simple", "resnetb", "resnetb_strided", "max_pool", "global_average",
     "nearest_upsample", "unary", "simple_equivariant"}

\* The substrings the builder tests a descriptor for (tmp in block).
Tags(block) ==
    CASE block = "simple" -> {"simple"}
      [] block = "simple_equivariant" -> {"simple", "equivariant"}
      [] block = "resnetb_strided" -> {"strided"}
      [] block = "max_pool" -> {"pool"}
      [] block = "global_average" -> {"global"}
      [] block = "nearest_upsample" -> {"upsample"}
      [] block = "upsample" -> {"upsample"}
      [] OTHER -> {}

\* 'tag' in block
Has(tag, block) == tag \in Tags(block)

ExampleArchitecture ==
    <<"simple", "resnetb", "resnetb_strided", "resnetb", "upsample", "unary">>

SeqsUpTo(S, n) == UNION {[1..k -> S] : k \in 0..n}

Architectures == SeqsUpTo(Blocks, MaxLen) \cup {ExampleArchitecture}

\* config.first_features_dim
FirstFeaturesDims == {3, 4}

\* config.first_subsampling_dl * config.conv_radius, a dyadic rational num/den
\* (a float; doubling and halving a float are exact).
InitialRadius == [num |-> 5, den |-> 2]

LabelValues == {0, 1, 2}
InputLabels == {-1, 0, 1, 2}
FittingModes == {"point2point", "point2plane", "unknown"}

\* The architecture and width used where the labels are what varies.
SmallArchitecture == <<"simple", "resnetb_strided", "nearest_upsample", "unary">>

\* ---------------------------------------------------------------- state

VARIABLES
    \* the arguments of __init__
    architecture, first_features_dim, lbl_values, ign_lbls, config_fitting_mode,
    \* position of the program, and the exception raised ("" for none)
    pc, raised,
    \* locals of __init__
    block_i, layer, r, in_dim_3d, in_dim_2d, out_dim, start_i, in_dim,
    \* fields of the model
    C, encoder_blocks_3d, encoder_blocks_2d, encoder_skip_dims, encoder_skips,
    decoder_blocks, decoder_concats, head_mlp, head_softmax, valid_labels,
    deform_fitting_mode, output_loss, reg_loss,
    \* locals of forward
    x_3d, x_2d, x, skip_x, index, fwd_i, handed, popped,
    \* locals of loss / accuracy
    labels, target

inputs == <<architecture, first_features_dim, lbl_values, ign_lbls, config_fitting_mode>>
builder == <<block_i, layer, r, in_dim_3d, in_dim_2d, out_dim, start_i, in_dim>>
fields == <<C, encoder_blocks_3d, encoder_blocks_2d, encoder_skip_dims, encoder_skips,
            decoder_blocks, decoder_concats, head_mlp, head_softmax, valid_labels,
            deform_fitting_mode, output_loss, reg_loss>>
fwd == <<x_3d, x_2d, x, skip_x, index, fwd_i, handed, popped>>
lossvars == <<labels, target>>
vars == <<inputs, pc, raised, builder, fields, fwd, lossvars>>

\* -------------------------------------------------------------- helpers

\* Python's l[i] on a list: negative indices count from the end.
InRange(l, i) == -Len(l) <= i /\ i < Len(l)
GetItem(l, i) == IF i >= 0 THEN l[i + 1] ELSE l[Len(l) + i + 1]

Range(s) == {s[k] : k \in DOMAIN s}

\* r *= 2
DoubleRadius(q) ==
    IF q.den > 1 THEN [num |-> q.num, den |-> q.den \div 2]
    ELSE [num |-> q.num * 2, den |-> q.den]

\* r *= 0.5
HalveRadius(q) ==
    IF q.num % 2 = 0 THEN [num |-> q.num \div 2, den |-> q.den]
    ELSE [num |-> q.num, den |-> q.den * 2]

\* out_dim *= 2
PooledOutDim(d) == d * 2

UpsampledOutDimKept(d) == d
\* out_dim = out_dim // 2
UpsampledOutDim(d) == d \div 2

IsSkipBlockNoUpsample(block) ==
    \E tmp \in {"pool", "strided", "global"} : Has(tmp, block)
\* np.any([tmp in block for tmp in ['pool', 'strided', 'upsample', 'global']])
IsSkipBlock(block) ==
    \E tmp \in {"pool", "strided", "upsample", "global"} : Has(tmp, block)

\* block_decider(block, r, in_dim, out_dim, layer, config): the module built,
\* kept as the arguments it was built from.
block_decider(block, radius, in_d, out_d, layer_ind) ==
    [name |-> block, r |-> radius, in_dim |-> in_d, out_dim |-> out_d,
     layer |-> layer_ind]

\* Width of block_op(x, batch): a 'simple' block yields half its configured
\* output width, every other block its configured output width.
OutWidth(blk) ==
    IF Has("simple", blk.name) THEN blk.out_dim \div 2 ELSE blk.out_dim

\* Index of the first block containing 'upsample', 0 when there is none.
FirstUpsample(arch) ==
    IF \E k \in 1..Len(arch) : Has("upsample", arch[k])
    THEN (CHOOSE k \in 1..Len(arch) :
            /\ Has("upsample", arch[k])
            /\ \A j \in 1..(k - 1) : ~Has("upsample", arch[j])) - 1
    ELSE 0

RECURSIVE Insert(_, _)
Insert(s, v) ==
    IF s = <<>> THEN <<v>>
    ELSE IF v <= Head(s) THEN <<v>> \o s
    ELSE <<Head(s)>> \o Insert(Tail(s), v)

RECURSIVE Sort(_)
\* np.sort
Sort(s) == IF s = <<>> THEN <<>> ELSE Insert(Sort(Tail(s)), Head(s))

NotIgnored(c) == c \notin Range(ign_lbls)
\* np.sort([c for c in lbl_values if c not in ign_lbls])
ValidLabels == Sort(SelectSeq(lbl_values, NotIgnored))

LabelIndexOneBased(l) ==
    IF \E i \in DOMAIN valid_labels : valid_labels[i] = l
    THEN CHOOSE i \in DOMAIN valid_labels :
            /\ valid_labels[i] = l
            /\ \A j \in DOMAIN valid_labels : valid_labels[j] = l => j <= i
    ELSE -1
\* target = -1; for i, c in enumerate(valid_labels): target[labels == c] = i
\* (the last i whose c equals the label is the one that stays)
LabelIndex(l) ==
    IF \E i \in DOMAIN valid_labels : valid_labels[i] = l
    THEN (CHOOSE i \in DOMAIN valid_labels :
            /\ valid_labels[i] = l
            /\ \A j \in DOMAIN valid_labels : valid_labels[j] = l => j <= i) - 1
    ELSE -1

\* The remapping of a label tensor, element by element.
Remap(t) == [k \in DOMAIN t |-> LabelIndex(t[k])]

\* ----------------------------------------------------------------- Init

Unbuilt ==
    /\ pc = "new"
    /\ raised = ""
    /\ block_i = 0 /\ layer = 0 /\ r = InitialRadius
    /\ in_dim_3d = 0 /\ in_dim_2d = 0 /\ out_dim = 0 /\ start_i = 0 /\ in_dim = 0
    /\ C = 0
    /\ encoder_blocks_3d = <<>> /\ encoder_blocks_2d = <<>>
    /\ encoder_skip_dims = <<>> /\ encoder_skips = <<>>
    /\ decoder_blocks = <<>> /\ decoder_concats = <<>>
    /\ head_mlp = <<>> /\ head_softmax = <<>>
    /\ valid_labels = <<>>
    /\ deform_fitting_mode = "" /\ output_loss = "unset" /\ reg_loss = "unset"
    /\ x_3d = 0 /\ x_2d = 0 /\ x = 0 /\ skip_x = <<>> /\ index = 0 /\ fwd_i = 0
    /\ handed = <<>> /\ popped = <<>>
    /\ labels = <<>> /\ target = <<>>

\* Every architecture, with one label configuration.
Init ==
    /\ architecture \in Architectures
    /\ first_features_dim \in FirstFeaturesDims
    /\ lbl_values = <<0, 1, 2>>
    /\ ign_lbls = <<0>>
    /\ config_fitting_mode = "point2point"
    /\ Unbuilt

\* Every label configuration and fitting mode, with one architecture.
InitLabels ==
    /\ architecture = SmallArchitecture
    /\ first_features_dim = 4
    /\ lbl_values \in SeqsUpTo(LabelValues, MaxLbl)
    /\ ign_lbls \in SeqsUpTo(LabelValues, MaxIgn)
    /\ config_fitting_mode \in FittingModes
    /\ Unbuilt

\* ------------------------------------------------------------- __init__

\* Lines 73-92: the parameters and the empty lists.
Parameters ==
    /\ pc = "new"
    /\ layer' = 0
    /\ r' = InitialRadius
    /\ in_dim_3d' = in_features_dim_3d
    /\ in_dim_2d' = in_features_dim_2d
    /\ out_dim' = first_features_dim
    /\ C' = Len(lbl_values) - Len(ign_lbls)
    /\ encoder_blocks_3d' = <<>> /\ encoder_blocks_2d' = <<>>
    /\ encoder_skip_dims' = <<>> /\ encoder_skips' = <<>>
    /\ block_i' = 0
    /\ pc' = IF Len(architecture) = 0 THEN "start" ELSE "encoder"
    /\ UNCHANGED <<inputs, raised, start_i, in_dim, decoder_blocks, decoder_concats,
                   head_mlp, head_softmax, valid_labels, deform_fitting_mode,
                   output_loss, reg_loss, fwd, lossvars>>

\* Lines 95-138: one iteration of the encoder loop.
EncoderStep ==
    /\ pc = "encoder"
    /\ LET block == architecture[block_i + 1]
           skip == IsSkipBlock(block)
           sub == Has("pool", block) \/ Has("strided", block)
       IN IF Has("equivariant", block) /\ out_dim % 3 # 0
          THEN /\ pc' = "failed"
               /\ raised' = "ValueError: Equivariant block but features dimension is not a factor of 3"
               /\ UNCHANGED <<builder, fields>>
          ELSE /\ raised' = raised
               /\ encoder_skips' =
                    IF skip THEN Append(encoder_skips, block_i) ELSE encoder_skips
               /\ encoder_skip_dims' =
                    IF skip THEN Append(encoder_skip_dims, in_dim_3d + in_dim_2d)
                    ELSE encoder_skip_dims
               /\ IF Has("upsample", block)
                  THEN /\ pc' = "start"
                       /\ UNCHANGED <<builder, encoder_blocks_3d, encoder_blocks_2d>>
                  ELSE /\ encoder_blocks_3d' = Append(encoder_blocks_3d,
                            block_decider(block, r, in_dim_3d, out_dim, layer))
                       /\ encoder_blocks_2d' = Append(encoder_blocks_2d,
                            block_decider(block, r, in_dim_2d, out_dim, layer))
                       /\ in_dim_3d' =
                            IF Has("simple", block) THEN out_dim \div 2 ELSE out_dim
                       /\ in_dim_2d' =
                            IF Has("simple", block) THEN out_dim \div 2 ELSE out_dim
                       /\ layer' = IF sub THEN layer + 1 ELSE layer
                       /\ r' = IF sub THEN DoubleRadius(r) ELSE r
                       /\ out_dim' = IF sub THEN PooledOutDim(out_dim) ELSE out_dim
                       /\ block_i' = block_i + 1
                       /\ pc' = IF block_i + 1 = Len(architecture)
                                THEN "start" ELSE "encoder"
                       /\ UNCHANGED <<start_i, in_dim>>
               /\ UNCHANGED <<C, decoder_blocks, decoder_concats, head_mlp,
                              head_softmax, valid_labels, deform_fitting_mode,
                              output_loss, reg_loss>>
    /\ UNCHANGED <<inputs, fwd, lossvars>>

\* Lines 145-156: the empty decoder lists, the first upsampling block, and the
\* input width of the first decoder block.
FindStart ==
    /\ pc = "start"
    /\ decoder_blocks' = <<>>
    /\ decoder_concats' = <<>>
    /\ start_i' = FirstUpsample(architecture)
    /\ in_dim' = in_dim_3d + in_dim_2d
    /\ block_i' = 0
    /\ pc' = IF Len(architecture) - FirstUpsample(architecture) = 0
             THEN "head" ELSE "decoder"
    /\ UNCHANGED <<inputs, raised, layer, r, in_dim_3d, in_dim_2d, out_dim, C,
                   encoder_blocks_3d, encoder_blocks_2d, encoder_skip_dims,
                   encoder_skips, head_mlp, head_softmax, valid_labels,
                   deform_fitting_mode, output_loss, reg_loss, fwd, lossvars>>

\* Lines 159-182: one iteration of the decoder loop.
DecoderStep ==
    /\ pc = "decoder"
    /\ LET block == architecture[start_i + block_i + 1]
           concat == block_i > 0 /\ Has("upsample", architecture[start_i + block_i])
           up == Has("upsample", block)
       IN IF concat /\ ~InRange(encoder_skip_dims, layer)
          THEN /\ pc' = "failed"
               /\ raised' = "IndexError: list index out of range"
               /\ UNCHANGED <<builder, decoder_blocks, decoder_concats>>
          ELSE LET in_d == IF concat THEN in_dim + GetItem(encoder_skip_dims, layer)
                           ELSE in_dim
               IN /\ raised' = raised
                  /\ decoder_concats' =
                       IF concat THEN Append(decoder_concats, block_i)
                       ELSE decoder_concats
                  /\ decoder_blocks' = Append(decoder_blocks,
                       block_decider(block, r, in_d, out_dim, layer))
                  /\ in_dim' = out_dim
                  /\ layer' = IF up THEN layer - 1 ELSE layer
                  /\ r' = IF up THEN HalveRadius(r) ELSE r
                  /\ out_dim' = IF up THEN UpsampledOutDim(out_dim) ELSE out_dim
                  /\ block_i' = block_i + 1
                  /\ pc' = IF start_i + block_i + 1 = Len(architecture)
                           THEN "head" ELSE "decoder"
                  /\ UNCHANGED <<in_dim_3d, in_dim_2d, start_i>>
    /\ UNCHANGED <<inputs, C, encoder_blocks_3d, encoder_blocks_2d, encoder_skip_dims,
                   encoder_skips, head_mlp, head_softmax, valid_labels,
                   deform_fitting_mode, output_loss, reg_loss, fwd, lossvars>>

\* Lines 184-230: the head layers, the valid labels and the loss fields.  A
\* linear layer of negative size (C < 0) is refused by the tensor library.
HeadAndLosses ==
    /\ pc = "head"
    /\ IF C < 0
       THEN /\ pc' = "failed"
            /\ raised' = "RuntimeError: negative dimension"
            /\ UNCHANGED <<head_mlp, head_softmax, valid_labels,
                           deform_fitting_mode, output_loss, reg_loss>>
       ELSE /\ head_mlp' = [in_dim |-> out_dim, out_dim |-> first_features_dim]
            /\ head_softmax' = [in_dim |-> first_features_dim, out_dim |-> C]
            /\ valid_labels' = ValidLabels
            /\ deform_fitting_mode' = config_fitting_mode
            /\ output_loss' = "0"
            /\ reg_loss' = "0"
            /\ raised' = raised
            /\ pc' = "built"
    /\ UNCHANGED <<inputs, builder, C, encoder_blocks_3d, encoder_blocks_2d,
                   encoder_skip_dims, encoder_skips, decoder_blocks,
                   decoder_concats, fwd, lossvars>>

\* -------------------------------------------------------------- forward

\* Lines 232-292: the input features of the two towers and the empty skip list.
ForwardInputs ==
    /\ pc = "built"
    /\ x_2d' = in_features_dim_2d
    /\ x_3d' = in_features_dim_3d
    /\ x' = 0
    /\ skip_x' = <<>>
    /\ index' = 0
    /\ fwd_i' = 0
    /\ handed' = <<>>
    /\ popped' = <<>>
    /\ pc' = IF Len(encoder_blocks_3d) = 0 THEN "fwd_merge" ELSE "fwd_3d"
    /\ UNCHANGED <<inputs, raised, builder, fields, lossvars>>

\* Lines 293-296: one block of the 3D tower.
Forward3D ==
    /\ pc = "fwd_3d"
    /\ skip_x' =
         IF fwd_i \in Range(encoder_skips)
         THEN Append(skip_x, [block |-> fwd_i, width |-> x_3d, fused |-> 0])
         ELSE skip_x
    /\ x_3d' = OutWidth(encoder_blocks_3d[fwd_i + 1])
    /\ fwd_i' = IF fwd_i + 1 = Len(encoder_blocks_3d) THEN 0 ELSE fwd_i + 1
    /\ pc' = IF fwd_i + 1 = Len(encoder_blocks_3d) THEN "fwd_2d" ELSE "fwd_3d"
    /\ UNCHANGED <<inputs, raised, builder, fields, x_2d, x, index, handed, popped,
                   lossvars>>

\* Lines 299-303: one block of the 2D tower.
Forward2D ==
    /\ pc = "fwd_2d"
    /\ IF fwd_i \in Range(encoder_skips)
       THEN /\ skip_x' = [skip_x EXCEPT ![index + 1] =
                            [block |-> @.block, width |-> @.width + x_2d,
                             fused |-> @.fused + 1]]
            /\ index' = index + 1
       ELSE UNCHANGED <<skip_x, index>>
    /\ x_2d' = OutWidth(encoder_blocks_2d[fwd_i + 1])
    /\ fwd_i' = IF fwd_i + 1 = Len(encoder_blocks_2d) THEN 0 ELSE fwd_i + 1
    /\ pc' = IF fwd_i + 1 = Len(encoder_blocks_2d) THEN "fwd_merge" ELSE "fwd_2d"
    /\ UNCHANGED <<inputs, raised, builder, fields, x_3d, x, handed, popped,
                   lossvars>>

\* Line 307: x = torch.mean(torch.stack([x_3d, x_2d]), 0); stacking tensors of
\* different widths is refused by the tensor library.
Merge ==
    /\ pc = "fwd_merge"
    /\ IF x_3d # x_2d
       THEN /\ raised' = "RuntimeError: stack expects each tensor to be equal size"
            /\ pc' = "aborted"
            /\ UNCHANGED x
       ELSE /\ x' = x_3d
            /\ raised' = raised
            /\ pc' = IF Len(decoder_blocks) = 0 THEN "fwd_head" ELSE "fwd_dec"
    /\ UNCHANGED <<inputs, builder, fields, x_3d, x_2d, skip_x, index, fwd_i,
                   handed, popped, lossvars>>

\* Lines 309-312: one block of the decoder.
ForwardDecoder ==
    /\ pc = "fwd_dec"
    /\ LET concat == fwd_i \in Range(decoder_concats)
       IN IF concat /\ skip_x = <<>>
          THEN /\ raised' = "IndexError: pop from empty list"
               /\ pc' = "aborted"
               /\ UNCHANGED <<x, skip_x, fwd_i, handed, popped>>
          ELSE LET top == skip_x[Len(skip_x)]
                   x_in == IF concat THEN x + top.width ELSE x
               IN /\ raised' = raised
                  /\ skip_x' = IF concat THEN SubSeq(skip_x, 1, Len(skip_x) - 1)
                               ELSE skip_x
                  /\ popped' = IF concat THEN Append(popped, top) ELSE popped
                  /\ handed' = Append(handed, x_in)
                  /\ x' = OutWidth(decoder_blocks[fwd_i + 1])
                  /\ fwd_i' = fwd_i + 1
                  /\ pc' = IF fwd_i + 1 = Len(decoder_blocks)
                           THEN "fwd_head" ELSE "fwd_dec"
    /\ UNCHANGED <<inputs, builder, fields, x_3d, x_2d, index, lossvars>>

\* Lines 315-318: the two head layers.
ForwardHead ==
    /\ pc = "fwd_head"
    /\ x' = head_softmax.out_dim
    /\ pc' = "ready"
    /\ UNCHANGED <<inputs, raised, builder, fields, x_3d, x_2d, skip_x, index,
                   fwd_i, handed, popped, lossvars>>

\* ----------------------------------------------------- loss and accuracy

LabelTensors == UNION {[1..k -> InputLabels] : k \in 1..MaxPoints}

\* Lines 328-353: loss(outputs, labels), called on the outputs of forward.
loss ==
    /\ pc = "ready"
    /\ \E t \in LabelTensors :
         /\ labels' = t
         /\ target' = Remap(t)
    /\ output_loss' = "criterion(outputs, target)"
    /\ IF deform_fitting_mode = "point2point"
       THEN /\ reg_loss' = "p2p_fitting_regularizer(self)"
            /\ raised' = raised
       ELSE /\ raised' =
                 IF deform_fitting_mode = "point2plane"
                 THEN "ValueError: point2plane fitting mode not implemented yet."
                 ELSE "ValueError: Unknown fitting mode"
            /\ UNCHANGED reg_loss
    /\ pc' = "returned"
    /\ UNCHANGED <<inputs, builder, fwd, C, encoder_blocks_3d, encoder_blocks_2d,
                   encoder_skip_dims, encoder_skips, decoder_blocks, decoder_concats,
                   head_mlp, head_softmax, valid_labels, deform_fitting_mode>>

\* Lines 363-372: accuracy(outputs, labels), called on the outputs of forward.
accuracy ==
    /\ pc = "ready"
    /\ \E t \in LabelTensors :
         /\ labels' = t
         /\ target' = Remap(t)
    /\ pc' = "returned"
    /\ UNCHANGED <<inputs, raised, builder, fields, fwd>>

Next ==
    \/ Parameters
    \/ EncoderStep
    \/ FindStart
    \/ DecoderStep
    \/ HeadAndLosses
    \/ ForwardInputs
    \/ Forward3D
    \/ Forward2D
    \/ Merge
    \/ ForwardDecoder
    \/ ForwardHead
    \/ loss
    \/ accuracy

Spec == Init /\ [][Next]_vars

SpecLabels == InitLabels /\ [][Next]_vars

\* ----------------------------------------------------------- properties

\* __init__ returned: the model exists (and may be running forward or loss).
Constructed ==
    pc \in {"built", "fwd_3d", "fwd_2d", "fwd_merge", "fwd_dec", "fwd_head",
            "ready", "returned", "aborted"}

IsSubsampling(block) == Has("pool", block) \/ Has("strided", block)

\* N: the pooling/strided blocks of the list.
NumPool(arch) == Cardinality({k \in DOMAIN arch : IsSubsampling(arch[k])})

\* M: the upsample blocks of the list.
NumUp(arch) == Cardinality({k \in DOMAIN arch : Has("upsample", arch[k])})

HasUpsample(arch) == \E k \in DOMAIN arch : Has("upsample", arch[k])

\* Number of blocks before the first upsample block (all of them if none).
PrefixLen(arch) == IF HasUpsample(arch) THEN FirstUpsample(arch) ELSE Len(arch)

\* The pooling/strided blocks before the first upsample block.
NumPoolBefore(arch) ==
    Cardinality({k \in 1..PrefixLen(arch) : IsSubsampling(arch[k])})

RECURSIVE Pow2(_)
Pow2(n) == IF n = 0 THEN 1 ELSE 2 * Pow2(n - 1)

RECURSIVE HalvedTimes(_, _)
\* d floor-halved m times
HalvedTimes(d, m) == IF m = 0 THEN d ELSE HalvedTimes(d \div 2, m - 1)

\* q = InitialRadius * 2^(n - m)
RadiusIs(q, n, m) ==
    q.num * InitialRadius.den * Pow2(m) = InitialRadius.num * q.den * Pow2(n)

Names(blocks) == [k \in DOMAIN blocks |-> blocks[k].name]

\* C1: construction completes if and only if the list has at most as many
\* upsample blocks (M) as pooling/strided blocks (N); with M > N the skip-width
\* lookup fails.  Stated for the lists without an 'equivariant' block, whose
\* construction has no other way to fail.
C1_ConstructsIffUpsamplesCovered ==
    ((Constructed \/ pc = "failed")
        /\ \A k \in DOMAIN architecture : ~Has("equivariant", architecture[k]))
    => (Constructed <=> NumUp(architecture) <= NumPool(architecture))

\* C2: at no position of the list, in the encoder part or the decoder part,
\* is an 'equivariant' block built while the output width current there is
\* not a multiple of 3.
C2_NoEquivariantBlockOffWidth ==
    Constructed =>
        \A blk \in Range(encoder_blocks_3d) \cup Range(decoder_blocks) :
            Has("equivariant", blk.name) => blk.out_dim % 3 = 0

\* C3 as claimed: after construction the radius is initial_radius * 2^(N-M)
\* and the output width first_features_dim * 2^(N-M), N counting the
\* pooling/strided blocks wherever they sit.
C3_RadiusAndWidthByAllBlocks ==
    Constructed =>
        /\ RadiusIs(r, NumPool(architecture), NumUp(architecture))
        /\ out_dim * Pow2(NumUp(architecture))
             = first_features_dim * Pow2(NumPool(architecture))

\* C3 amended: after construction the radius is initial_radius * 2^(Ne-M) and
\* the output width is first_features_dim * 2^Ne floor-halved M times, Ne
\* counting only the pooling/strided blocks before the first upsample block;
\* the width is first_features_dim * 2^(Ne-M) when M <= Ne.
C3_RadiusAndWidthByEncoderBlocks ==
    Constructed =>
        LET Ne == NumPoolBefore(architecture)
            M == NumUp(architecture)
        IN /\ RadiusIs(r, Ne, M)
           /\ out_dim = HalvedTimes(first_features_dim * Pow2(Ne), M)
           /\ M <= Ne => out_dim = first_features_dim * Pow2(Ne - M)

\* C3 witness: a built model with a strided block on each side of an upsample.
C3_Witness ==
    /\ pc = "built"
    /\ NumPoolBefore(architecture) >= 1
    /\ NumUp(architecture) >= 1
    /\ NumPool(architecture) > NumPoolBefore(architecture)

\* C4: the encoder towers hold exactly the blocks before the first upsample
\* block and the decoder exactly the rest, so the two lengths add up to the
\* length of the list.
C4_EncoderDecoderPartition ==
    Constructed =>
        /\ Len(encoder_blocks_3d) = Len(encoder_blocks_2d)
        /\ Len(encoder_blocks_3d) + Len(decoder_blocks) = Len(architecture)
        /\ Names(encoder_blocks_3d) \o Names(decoder_blocks) = architecture

\* C5 as claimed: the example architecture leaves one entry in the skip
\* registry (the strided block), one decoder concat (right after the
\* upsample) and a head input width of first_features_dim.
C5_ExampleOneSkipEntry ==
    (Constructed /\ architecture = ExampleArchitecture) =>
        /\ encoder_skips = <<2>>
        /\ Len(encoder_skip_dims) = 1
        /\ decoder_concats = <<1>>
        /\ head_mlp.in_dim = first_features_dim

\* C5 amended: the example architecture leaves two entries in the skip
\* registry, the strided block (index 2) and the upsample block (index 4), of
\* which only the strided one is a block of the encoder; one decoder concat
\* (right after the upsample) and a head input width of first_features_dim.
C5_ExampleTwoSkipEntries ==
    (Constructed /\ architecture = ExampleArchitecture) =>
        /\ encoder_skips = <<2, 4>>
        /\ Len(encoder_skip_dims) = 2
        /\ {i \in Range(encoder_skips) : i < Len(encoder_blocks_3d)} = {2}
        /\ decoder_concats = <<1>>
        /\ head_mlp.in_dim = first_features_dim

\* C5 witness: the example architecture, built.
C5_Witness == pc = "built" /\ architecture = ExampleArchitecture

\* C6: every remapped label is the sentinel -1 or an index in 0..C-1.
C6_RemapWithinClasses ==
    \A k \in DOMAIN target : target[k] = -1 \/ (0 <= target[k] /\ target[k] <= C - 1)

\* C7 as claimed: remapping a remapped tensor returns it unchanged.
C7_RemapIdempotent ==
    labels # <<>> => Remap(target) = target

\* C7 amended: remapping a remapped tensor returns it unchanged when the
\* valid-label list is 0, 1, ..., k-1 (the labels are dense already).
C7_RemapIdempotentOnDenseLabels ==
    (labels # <<>> /\ valid_labels = [i \in 1..Len(valid_labels) |-> i - 1])
    => Remap(target) = target

\* C7 witness: a valid label remapped under the dense list 0, 1.
C7_Witness ==
    /\ valid_labels = <<0, 1>>
    /\ labels # <<>>
    /\ labels[1] = 1
    /\ target[1] = 1

\* C8: a fitting mode other than 'point2point' never yields a constructed
\* model, and no loss field is written before its error is raised.
C8_FittingModeRejectedAtConstruction ==
    /\ config_fitting_mode # "point2point" => ~Constructed
    /\ raised \in {"ValueError: point2plane fitting mode not implemented yet.",
                   "ValueError: Unknown fitting mode"}
         => (output_loss = "0" /\ reg_loss = "0")

\* C9: the forward pass of a constructed model never pops from an empty skip
\* list: the decoder concats are at most the snapshots captured, and every
\* snapshot popped was fused with its 2D feature exactly once.
C9_NoPopFromEmpty ==
    /\ raised # "IndexError: pop from empty list"
    /\ pc \in {"fwd_dec", "fwd_head", "ready", "returned"} =>
         Len(decoder_concats)
           <= Cardinality({i \in Range(encoder_skips) : i < Len(encoder_blocks_3d)})
    /\ \A k \in DOMAIN popped : popped[k].fused = 1

\* C10: every decoder block is handed a tensor of the input width it was
\* built for.  Stated for the lists that have an upsample block and no more
\* upsample blocks than pooling/strided blocks before the first of them.
C10_DeclaredWidthIsHandedWidth ==
    (HasUpsample(architecture)
        /\ NumUp(architecture) <= NumPoolBefore(architecture))
    => \A j \in DOMAIN handed : handed[j] = decoder_blocks[j].in_dim

====
